---------------------------- MODULE Spec2Model ----------------------------
(***************************************************************************)
(* Model of src/SAMPLE/app.py: a Flask portal whose persistent state is    *)
(* (a) a SQLite user registry kept as one file in the object store and     *)
(* copied to a process-wide local path around every request, and (b) one   *)
(* JSON catalog document per (year, semester) scope plus uploaded blobs.   *)
(*                                                                         *)
(* Every object-store call is one atomic step.  A request handler is a     *)
(* process p that walks through its object-store calls; the code local to  *)
(* the handler between two calls belongs to the step of the later call.    *)
(* The S3 client is taken as initialised (app.py:50-61); a store fault is  *)
(* a botocore ClientError on one call.                                     *)
(*                                                                         *)
(* Text is a sequence of code points, so that the three case conversions   *)
(* the code uses (SQLite LOWER/UPPER, Python str.lower/str.upper) are      *)
(* computed and can differ.                                                *)
(***************************************************************************)
EXTENDS Integers, Sequences, FiniteSets, Bags, TLC

VARIABLES
    s3db,       \* users/users.db in the object store
    localdb,    \* the file at TEMP_DB_PATH, shared by all requests
    rpc,        \* rpc[p]: where registration request p stands
    rin,        \* rin[p]: the request's (department, year, section, name, email)
    rfound,     \* rfound[p]: id of the row fetchone() returned, 0 for None
    rresp,      \* rresp[p]: what add_or_update_user returned to p
    nreg,       \* registration requests started so far
    regDone     \* history: bag of the keys of the registrations that returned

regvars == <<s3db, localdb, rpc, rin, rfound, rresp, nreg, regDone>>

VARIABLES
    docs,       \* docs[scope]: the catalog document data.json of the scope
    blobs,      \* keys of the uploaded files present in the object store
    cpc,        \* cpc[p]: where catalog request p stands
    creq,       \* creq[p]: the request (handler, session values, arguments)
    cdata,      \* cdata[p]: the handler's in-memory document
    ctodo,      \* ctodo[p]: keys the handler has still to delete
    cresp,      \* cresp[p]: the handler's response
    nextId,     \* ids handed out so far (uuid4 never repeats)
    nreq,       \* catalog requests started so far
    cpre,       \* history: the stored document when request p started
    cputs,      \* history: put_object calls on data.json made by request p
    cdels,      \* history: delete_object calls made by request p, in order
    cups,       \* history: upload_fileobj calls made by request p, in order
    cfails      \* history: keys whose delete_object failed during request p

catvars ==
    <<docs, blobs, cpc, creq, cdata, ctodo, cresp, nextId, nreq, cpre, cputs, cdels,
      cups, cfails>>

VARIABLES
    contacts,   \* contacts/submissions.json in the object store
    kpc,        \* kpc[p]: where contact request p stands
    kdata,      \* kdata[p]: the handler's in-memory submissions list
    kresp,      \* kresp[p]: the handler's response
    nmsg        \* contact requests started so far

convars == <<contacts, kpc, kdata, kresp, nmsg>>

VARIABLES
    jar,        \* the session cookie the browser holds
    ccookie,    \* ccookie[p]: the cookie the /subjects request p came with
    rcookie,    \* rcookie[p]: the cookie the registration request p came with
    logins,     \* history: the years admin_login has succeeded for
    sop,        \* history: the handler whose response set the cookie last
    nses        \* login and logout requests so far

sesvars == <<jar, ccookie, rcookie, logins, sop, nses>>

vars == <<regvars, catvars, convars, sesvars>>

(***************************************************************************)
(* Bounds                                                                  *)
(***************************************************************************)
MaxRegs == 3
MaxReqs == 3
MaxBusyReqs == 2
MaxUnitReqs == 2
MaxMsgs == 4
MaxSessReqs == 3

Procs == {1, 2}

\* Store call outcomes: "ok", or a ClientError other than 404/NoSuchKey.
OK == "ok"
ERR == "err"
Outcomes == {OK, ERR}

(***************************************************************************)
(* Text and case conversion                                                *)
(***************************************************************************)
\* Code points used: A=65 C=67 E=69 N=78, a=97 c=99 e=101 n=110,
\* and the Latin-1 pair E-acute: capital 201, small 233.
AsciiUpper == 65..90
AsciiLower == 97..122
Latin1Upper == (192..222) \ {215}
Latin1Lower == (224..254) \ {247}

\* SQLite's built-in LOWER()/UPPER() fold the 26 ASCII letters only.
SqlLower(s) == [i \in DOMAIN s |-> IF s[i] \in AsciiUpper THEN s[i] + 32 ELSE s[i]]
SqlUpper(s) == [i \in DOMAIN s |-> IF s[i] \in AsciiLower THEN s[i] - 32 ELSE s[i]]

\* Python's str.lower()/str.upper() fold Unicode letters (here: Latin-1).
PyLower(s) ==
    [i \in DOMAIN s |->
        IF s[i] \in AsciiUpper \cup Latin1Upper THEN s[i] + 32 ELSE s[i]]
PyUpper(s) ==
    [i \in DOMAIN s |->
        IF s[i] \in AsciiLower \cup Latin1Lower THEN s[i] - 32 ELSE s[i]]

(***************************************************************************)
(* User registry: the SQLite file                                          *)
(***************************************************************************)
\* A database file: the users table and the AUTOINCREMENT sequence.
NoFile == [exists |-> FALSE, rows |-> {}, seq |-> 0]
EmptyDb == [exists |-> TRUE, rows |-> {}, seq |-> 0]

\* init_db: CREATE TABLE IF NOT EXISTS on the file at TEMP_DB_PATH.
init_db(file) == IF file.exists THEN file ELSE EmptyDb

\* Mutant of get_db_connection: a local file that exists is not replaced.
get_db_connection_keep(remote, file, outcome) ==
    IF file.exists THEN file
    ELSE IF outcome = OK /\ remote.exists THEN remote ELSE init_db(file)

\* download_db_from_s3 inside get_db_connection: the remote copy replaces the
\* local file; on 404 init_db() runs; on any other failure get_db_connection
\* keeps an existing local file and creates one only when there is none.
get_db_connection(remote, file, outcome) ==
    IF outcome = OK /\ remote.exists THEN remote ELSE init_db(file)

\* The WHERE clause of the lookup in add_or_update_user.
SelectMatches(row, in) ==
    /\ SqlLower(row.department) = SqlLower(in.department)
    /\ row.year = in.year
    /\ SqlUpper(row.section) = SqlUpper(in.section)
    /\ SqlLower(row.name) = SqlLower(in.name)
    /\ SqlLower(row.email) = SqlLower(in.email)

\* cursor.fetchone(): the first matching row in rowid order, 0 for None.
FetchOne(file, in) ==
    LET hits == {r.id : r \in {x \in file.rows : SelectMatches(x, in)}}
    IN IF hits = {} THEN 0 ELSE CHOOSE i \in hits : \A j \in hits : i <= j

\* The row the INSERT statement would add (section stored upper-cased by Python).
NewRow(file, in) ==
    [id |-> file.seq + 1, department |-> in.department, year |-> in.year,
     section |-> PyUpper(in.section), name |-> in.name, email |-> in.email,
     count |-> 1]

\* UNIQUE(department, year, section, name, email): binary comparison.
UniqueViolated(file, row) ==
    \E r \in file.rows :
        /\ r.department = row.department /\ r.year = row.year
        /\ r.section = row.section /\ r.name = row.name /\ r.email = row.email

\* UPDATE users SET count = count + 1 WHERE id = ?
UpdateCount(file, id) ==
    [file EXCEPT !.rows =
        {IF r.id = id THEN [r EXCEPT !.count = r.count + 1] ELSE r : r \in file.rows}]

\* INSERT INTO users ... VALUES (?, ?, ?, ?, ?, 1)
InsertRow(file, in) ==
    [file EXCEPT !.rows = file.rows \cup {NewRow(file, in)}, !.seq = file.seq + 1]

(***************************************************************************)
(* Registration requests                                                   *)
(***************************************************************************)
\* Request fields: each text field has a case variant; section has a
\* non-ASCII letter.
Depts == {<<67>>, <<99>>}
Years == {1, 2}
Sections == {<<65>>, <<97>>, <<233>>}
Names == {<<78>>, <<110>>}
Emails == {<<69>>, <<101>>}

IsAscii(s) == \A i \in DOMAIN s : s[i] < 128

NoInput == [department |-> <<>>, year |-> 0, section |-> <<>>, name |-> <<>>, email |-> <<>>]

\* Every request body register_user accepts (all five fields present).
RegInputs ==
    [department : Depts, year : Years, section : Sections, name : Names,
     email : Emails]

\* The inputs of the interleaved runs: ASCII text, one year, one e-mail.
RegInputsAscii ==
    {in \in RegInputs : IsAscii(in.section) /\ in.year = 2 /\ in.email = <<69>>}

\* The uniqueness key of a registration with letter case folded away.
CanonKey(in) ==
    <<PyLower(in.department), in.year, PyLower(in.section), PyLower(in.name),
      PyLower(in.email)>>

\* register_user up to and including get_db_connection() in add_or_update_user.
RegConnect(p, in, outcome) ==
    /\ rpc[p] = "idle"
    /\ nreg < MaxRegs
    /\ nreg' = nreg + 1
    /\ rin' = [rin EXCEPT ![p] = in]
    /\ rresp' = [rresp EXCEPT ![p] = "none"]
    /\ rfound' = [rfound EXCEPT ![p] = 0]
    /\ localdb' = get_db_connection(s3db, localdb, outcome)
    /\ rpc' = [rpc EXCEPT ![p] = "select"]
    /\ UNCHANGED <<s3db, regDone>>

\* The SELECT and fetchone().
RegSelect(p) ==
    /\ rpc[p] = "select"
    /\ rfound' = [rfound EXCEPT ![p] = FetchOne(localdb, rin[p])]
    /\ rpc' = [rpc EXCEPT ![p] = "write"]
    /\ UNCHANGED <<s3db, localdb, rin, rresp, nreg, regDone>>

\* UPDATE or INSERT, then commit; an IntegrityError returns without upload.
\* A request that has returned keeps nothing but its response.
RegWrite(p) ==
    /\ rpc[p] = "write"
    /\ IF rfound[p] # 0
       THEN /\ localdb' = UpdateCount(localdb, rfound[p])
            /\ rresp' = [rresp EXCEPT ![p] = "User updated"]
            /\ rpc' = [rpc EXCEPT ![p] = "upload"]
            /\ UNCHANGED <<regDone, rin, rfound>>
       ELSE IF UniqueViolated(localdb, NewRow(localdb, rin[p]))
            THEN /\ rresp' = [rresp EXCEPT ![p] = "User update failed"]
                 /\ rpc' = [rpc EXCEPT ![p] = "idle"]
                 /\ regDone' = regDone (+) SetToBag({CanonKey(rin[p])})
                 /\ rin' = [rin EXCEPT ![p] = NoInput]
                 /\ rfound' = [rfound EXCEPT ![p] = 0]
                 /\ UNCHANGED localdb
            ELSE /\ localdb' = InsertRow(localdb, rin[p])
                 /\ rresp' = [rresp EXCEPT ![p] = "New user created"]
                 /\ rpc' = [rpc EXCEPT ![p] = "upload"]
                 /\ UNCHANGED <<regDone, rin, rfound>>
    /\ UNCHANGED <<s3db, nreg>>

\* upload_db_to_s3: the whole local file replaces the remote copy.
RegUpload(p, outcome) ==
    /\ rpc[p] = "upload"
    /\ IF outcome = OK
       THEN /\ s3db' = localdb
            /\ regDone' = regDone (+) SetToBag({CanonKey(rin[p])})
            /\ UNCHANGED rresp
       ELSE /\ rresp' = [rresp EXCEPT ![p] = "Failed to process user"]
            /\ UNCHANGED <<s3db, regDone>>
    /\ rpc' = [rpc EXCEPT ![p] = "idle"]
    /\ rin' = [rin EXCEPT ![p] = NoInput]
    /\ rfound' = [rfound EXCEPT ![p] = 0]
    /\ UNCHANGED <<localdb, nreg>>

(***************************************************************************)
(* Catalog documents and uploaded files                                    *)
(***************************************************************************)
\* A scope is <<year, semester>>; semester 0 is a session without a semester
\* (the key is then "year_{year}/Nonesem/...").
Scopes == {<<1, 0>>, <<1, 1>>, <<1, 2>>, <<2, 0>>, <<2, 1>>}

\* get_s3_key: "year_{year}/{semester}sem/{filename}".
get_s3_key(scope, filename) == <<scope[1], scope[2], filename>>

\* Python None as a unit's filename (falsy, as the empty string is).
None == <<>>

\* File names of the model: a.pdf, b.pdf, a.exe.
Dot == 46
FileNames == {<<97, 46, 112, 100, 102>>, <<98, 46, 112, 100, 102>>,
              <<97, 46, 101, 120, 101>>}

\* The members of ALLOWED_EXTENSIONS the model's file names can meet: pdf, txt.
ALLOWED_EXTENSIONS == {<<112, 100, 102>>, <<116, 120, 116>>}

\* allowed_file: "." in filename and filename.rsplit(".", 1)[1].lower() in
\* ALLOWED_EXTENSIONS.
allowed_file(filename) ==
    /\ \E i \in DOMAIN filename : filename[i] = Dot
    /\ LET last == CHOOSE i \in DOMAIN filename :
                       /\ filename[i] = Dot
                       /\ \A j \in DOMAIN filename : filename[j] = Dot => j <= i
       IN PyLower(SubSeq(filename, last + 1, Len(filename))) \in ALLOWED_EXTENSIONS

\* werkzeug's secure_filename on names made of ASCII letters, digits, "_",
\* "-" and ".": every other character is dropped.
secure_filename(filename) ==
    LET keep(c) == c \in AsciiUpper \cup AsciiLower \cup (48..57) \cup {45, 46, 95}
    IN SelectSeq(filename, keep)

\* A document as stored; the fields icon, created_at, storage_used,
\* last_updated and the units' text fields are carried along unread and are
\* left out.  json.dumps/json.loads keep str, int, null, list and dict values.
ZeroStats ==
    [total_subjects |-> 0, total_files |-> 0, total_visits |-> 0, total_downloads |-> 0]
NoDoc == [exists |-> FALSE, subjects |-> <<>>, stats |-> ZeroStats]

\* default_data of load_data.
default_data == [exists |-> TRUE, subjects |-> <<>>, stats |-> ZeroStats]

RECURSIVE SumUnits(_)
\* sum(len(subject.get("units", [])) for subject in data.get("subjects", []))
SumUnits(subjects) ==
    IF subjects = <<>> THEN 0
    ELSE Len(Head(subjects).units) + SumUnits(Tail(subjects))

\* Mutant of save_data: total_files is not recomputed.
save_data_no_recount(data) ==
    [data EXCEPT !.stats.total_subjects = Len(data.subjects)]

\* save_data before the upload: the derived statistics are recomputed.
save_data(data) ==
    [data EXCEPT !.stats.total_subjects = Len(data.subjects),
                 !.stats.total_files = SumUnits(data.subjects)]

\* Mutant of s3_upload_json: a merging write, which keeps the stored subjects
\* the written document lacks.
s3_upload_json_merge(stored, data) ==
    LET lacks(x) == \A i \in DOMAIN data.subjects : data.subjects[i].id # x.id
    IN [data EXCEPT !.subjects = @ \o SelectSeq(stored.subjects, lacks)]

\* s3_upload_json: put_object replaces whatever is stored under the key.
s3_upload_json(stored, data) == data

\* Index of the first subject with the id, 0 when there is none.
FindSubject(data, sid) ==
    LET hits == {i \in DOMAIN data.subjects : data.subjects[i].id = sid}
    IN IF hits = {} THEN 0 ELSE CHOOSE i \in hits : \A j \in hits : i <= j

\* list.pop(i)
Pop(seq, i) == SubSeq(seq, 1, i - 1) \o SubSeq(seq, i + 1, Len(seq))

\* The keys delete_subject deletes: one per unit whose filename is truthy.
RECURSIVE UnitKeys(_, _)
UnitKeys(scope, units) ==
    IF units = <<>> THEN <<>>
    ELSE (IF Head(units).filename # None
          THEN <<get_s3_key(scope, Head(units).filename)>> ELSE <<>>)
         \o UnitKeys(scope, Tail(units))

(***************************************************************************)
(* Catalog requests                                                        *)
(***************************************************************************)
\* The session cookie a request carries; 0 stands for a key that is not set.
\* A fresh cookie, a visitor who selected a scope, an admin of year 1.
Sessions ==
    {[admin_logged_in |-> FALSE, admin_year |-> 0, year |-> 0, semester |-> 0]}
    \cup {[admin_logged_in |-> a, admin_year |-> IF a THEN 1 ELSE 0,
           year |-> 1, semester |-> m] : a \in BOOLEAN, m \in {1, 2}}

\* Mutant of AdminScope: the selected year comes before admin_year.
AdminScope_selected(sess) ==
    <<IF sess.year # 0 THEN sess.year ELSE sess.admin_year, sess.semester>>

\* year = session.get("admin_year") or session.get("year");
\* semester = session.get("semester")
AdminScope(sess) ==
    <<IF sess.admin_year # 0 THEN sess.admin_year ELSE sess.year, sess.semester>>

\* Subject names: "D", "d", "o".
SubjectNames == {<<68>>, <<100>>, <<111>>}

\* An upload: no file part, or a file part with its client-side name.
NoUpload == <<>>
Uploads == {NoUpload} \cup FileNames

NoReq ==
    [op |-> "none", admin |-> FALSE, scope |-> <<0, 0>>, name |-> <<>>, sid |-> 0,
     uid |-> 0, filename |-> None, newid |-> 0]

Request(op, admin, scope, name, sid, filename, newid) ==
    [op |-> op, admin |-> admin, scope |-> scope, name |-> name, sid |-> sid,
     uid |-> 0, filename |-> filename, newid |-> newid]

\* A request of edit_unit or delete_unit: it names a unit of a subject.
UnitRequest(op, scope, sid, uid, filename) ==
    [Request(op, TRUE, scope, <<>>, sid, filename, 0) EXCEPT !.uid = uid]

\* What a handler does with the document load_data returned, up to its next
\* object-store call: leave with a response, or go on with a changed document.
Leave(resp) == [pc |-> "idle", data |-> NoDoc, todo |-> <<>>, resp |-> resp]
GoOn(pc, data, todo) == [pc |-> pc, data |-> data, todo |-> todo, resp |-> "none"]

\* add_subject after load_data: reject a name already present (compared with
\* str.lower()), else append the new subject.
add_subject_loaded(req, data) ==
    IF \E i \in DOMAIN data.subjects :
           PyLower(data.subjects[i].name) = PyLower(req.name)
    THEN Leave("Subject already exists")
    ELSE GoOn("save",
              [data EXCEPT !.subjects =
                  Append(@, [id |-> req.newid, name |-> req.name, units |-> <<>>])],
              <<>>)

\* edit_subject after load_data: rename the first subject with the id.
edit_subject_loaded(req, data) ==
    LET i == FindSubject(data, req.sid)
    IN IF i = 0 THEN Leave("Subject not found")
       ELSE GoOn("save", [data EXCEPT !.subjects[i].name = req.name], <<>>)

\* add_unit after load_data: append the unit to the first subject with the id.
add_unit_loaded(req, data) ==
    LET i == FindSubject(data, req.sid)
    IN IF i = 0 THEN Leave("Subject not found")
       ELSE GoOn("save",
                 [data EXCEPT !.subjects[i].units =
                     Append(@, [id |-> req.newid, filename |-> req.filename])],
                 <<>>)

\* delete_subject after load_data: pop the subject, then delete the file of
\* each of its units that has one, then save.
delete_subject_loaded(req, data) ==
    LET i == FindSubject(data, req.sid)
    IN IF i = 0 THEN Leave("Subject not found")
       ELSE LET keys == UnitKeys(req.scope, data.subjects[i].units)
            IN GoOn(IF keys = <<>> THEN "save" ELSE "delete",
                    [data EXCEPT !.subjects = Pop(@, i)], keys)

\* Index in the subject's units of the first unit with the id, 0 for none.
FindUnit(subject, uid) ==
    LET hits == {j \in DOMAIN subject.units : subject.units[j].id = uid}
    IN IF hits = {} THEN 0 ELSE CHOOSE j \in hits : \A k \in hits : j <= k

\* edit_unit after load_data: find the unit; with an allowed file, the old
\* file (if the unit has one) is deleted first and the new one uploaded next.
edit_unit_loaded(req, data) ==
    LET i == FindSubject(data, req.sid)
        j == IF i = 0 THEN 0 ELSE FindUnit(data.subjects[i], req.uid)
    IN IF j = 0 THEN Leave("Unit not found")
       ELSE IF req.filename = None THEN GoOn("save", data, <<>>)
       ELSE LET old == data.subjects[i].units[j].filename
            IN IF old # None
               THEN GoOn("delete", data, <<get_s3_key(req.scope, old)>>)
               ELSE GoOn("upload", data, <<>>)

\* delete_unit after load_data: pop the unit, delete its file if it has one.
delete_unit_loaded(req, data) ==
    LET i == FindSubject(data, req.sid)
        j == IF i = 0 THEN 0 ELSE FindUnit(data.subjects[i], req.uid)
    IN IF j = 0 THEN Leave("Unit not found")
       ELSE LET old == data.subjects[i].units[j].filename
                popped == [data EXCEPT !.subjects[i].units = Pop(@, j)]
            IN IF old # None
               THEN GoOn("delete", popped, <<get_s3_key(req.scope, old)>>)
               ELSE GoOn("save", popped, <<>>)

\* unit["filename"] = filename, in edit_unit after the upload.
SetFilename(data, sid, uid, filename) ==
    LET i == FindSubject(data, sid)
        j == FindUnit(data.subjects[i], uid)
    IN [data EXCEPT !.subjects[i].units[j].filename = filename]

\* subjects after load_data: total_visits + 1.
subjects_loaded(req, data) ==
    GoOn("save", [data EXCEPT !.stats.total_visits = @ + 1], <<>>)

\* download_file after load_data: total_downloads + 1.
download_file_loaded(req, data) ==
    GoOn("save", [data EXCEPT !.stats.total_downloads = @ + 1], <<>>)

Loaded(req, data) ==
    CASE req.op = "add_subject" -> add_subject_loaded(req, data)
      [] req.op = "edit_subject" -> edit_subject_loaded(req, data)
      [] req.op = "add_unit" -> add_unit_loaded(req, data)
      [] req.op = "delete_subject" -> delete_subject_loaded(req, data)
      [] req.op = "edit_unit" -> edit_unit_loaded(req, data)
      [] req.op = "delete_unit" -> delete_unit_loaded(req, data)
      [] req.op = "subjects" -> subjects_loaded(req, data)
      [] req.op = "download_file" -> download_file_loaded(req, data)

\* The handler of request p moves on as `next` says.
Proceed(p, next) ==
    /\ cpc' = [cpc EXCEPT ![p] = next.pc]
    /\ cdata' = [cdata EXCEPT ![p] = next.data]
    /\ ctodo' = [ctodo EXCEPT ![p] = next.todo]
    /\ cresp' = [cresp EXCEPT ![p] = next.resp]

\* A request arrives: the history of the previous request of p is reset.
Arrive(p, req) ==
    /\ cpc[p] = "idle"
    /\ nreq' = nreq + 1
    /\ creq' = [creq EXCEPT ![p] = req]
    /\ nextId' = IF req.newid # 0 THEN req.newid ELSE nextId
    /\ cpre' = [cpre EXCEPT ![p] = IF req.scope \in Scopes THEN docs[req.scope] ELSE NoDoc]
    /\ cdels' = [cdels EXCEPT ![p] = <<>>]
    /\ cfails' = [cfails EXCEPT ![p] = {}]

\* load_data, first half: s3_download_json.  A stored document is returned;
\* None (no such key) and a failed download both lead on to default_data.
load_data(p, req, outcome) ==
    /\ IF outcome = OK /\ docs[req.scope].exists
       THEN Proceed(p, Loaded(req, docs[req.scope]))
       ELSE Proceed(p, GoOn("default", default_data, <<>>))
    /\ UNCHANGED <<docs, blobs>>

\* A handler that returns before any object-store call.
Refuse(p, op, resp) ==
    /\ Arrive(p, Request(op, FALSE, <<0, 0>>, <<>>, 0, None, 0))
    /\ Proceed(p, Leave(resp))
    /\ cputs' = [cputs EXCEPT ![p] = 0]
    /\ cups' = [cups EXCEPT ![p] = <<>>]
    /\ UNCHANGED <<docs, blobs>>

\* A handler whose first object-store call is the download in load_data.
ArriveAndLoad(p, req, outcome) ==
    /\ Arrive(p, req)
    /\ cputs' = [cputs EXCEPT ![p] = 0]
    /\ cups' = [cups EXCEPT ![p] = <<>>]
    /\ load_data(p, req, outcome)

\* POST /admin/add_subject
add_subject(p, sess, name, outcome) ==
    /\ IF ~sess.admin_logged_in
       THEN Refuse(p, "add_subject", "Not authorized")
       ELSE ArriveAndLoad(p, Request("add_subject", TRUE, AdminScope(sess), name, 0,
                                     None, nextId + 1), outcome)
    /\ UNCHANGED regvars

\* POST /admin/edit_subject
edit_subject(p, sess, sid, name, outcome) ==
    /\ IF ~sess.admin_logged_in
       THEN Refuse(p, "edit_subject", "Not authorized")
       ELSE ArriveAndLoad(p, Request("edit_subject", TRUE, AdminScope(sess), name, sid,
                                     None, 0), outcome)
    /\ UNCHANGED regvars

\* DELETE /admin/delete_subject/<subject_id>
delete_subject(p, sess, sid, outcome) ==
    /\ IF ~sess.admin_logged_in
       THEN Refuse(p, "delete_subject", "Not authorized")
       ELSE ArriveAndLoad(p, Request("delete_subject", TRUE, AdminScope(sess), <<>>, sid,
                                     None, 0), outcome)
    /\ UNCHANGED regvars

\* POST /admin/add_unit: an allowed file is uploaded before load_data runs.
add_unit(p, sess, sid, upload, outcome) ==
    /\ IF ~sess.admin_logged_in
       THEN Refuse(p, "add_unit", "Not authorized")
       ELSE IF upload # NoUpload /\ allowed_file(upload)
       THEN LET req == Request("add_unit", TRUE, AdminScope(sess), <<>>, sid,
                               secure_filename(upload), nextId + 1)
            IN /\ Arrive(p, req)
               /\ cputs' = [cputs EXCEPT ![p] = 0]
               /\ cups' = [cups EXCEPT ![p] = <<get_s3_key(req.scope, req.filename)>>]
               /\ IF outcome = OK
                  THEN /\ blobs' = blobs \cup {get_s3_key(req.scope, req.filename)}
                       /\ Proceed(p, GoOn("load", NoDoc, <<>>))
                  ELSE /\ Proceed(p, Leave("File upload failed"))
                       /\ UNCHANGED blobs
               /\ UNCHANGED docs
       ELSE ArriveAndLoad(p, Request("add_unit", TRUE, AdminScope(sess), <<>>, sid,
                                     None, nextId + 1), outcome)
    /\ UNCHANGED regvars

\* POST /admin/edit_unit: a file part counts when its extension is allowed.
edit_unit(p, sess, sid, uid, upload, outcome) ==
    /\ IF ~sess.admin_logged_in
       THEN Refuse(p, "edit_unit", "Not authorized")
       ELSE ArriveAndLoad(p, UnitRequest("edit_unit", AdminScope(sess), sid, uid,
                                         IF upload # NoUpload /\ allowed_file(upload)
                                         THEN secure_filename(upload) ELSE None),
                          outcome)
    /\ UNCHANGED regvars

\* DELETE /admin/delete_unit
delete_unit(p, sess, sid, uid, outcome) ==
    /\ IF ~sess.admin_logged_in
       THEN Refuse(p, "delete_unit", "Not authorized")
       ELSE ArriveAndLoad(p, UnitRequest("delete_unit", AdminScope(sess), sid, uid, None),
                          outcome)
    /\ UNCHANGED regvars

\* GET /subjects with department, year and semester given.
subjects(p, scope, outcome) ==
    /\ ArriveAndLoad(p, Request("subjects", FALSE, scope, <<>>, 0, None, 0), outcome)
    /\ UNCHANGED regvars

\* GET /download/<filename>: s3_download_fileobj comes first.
download_file(p, sess, filename, outcome) ==
    /\ IF sess.year = 0 \/ sess.semester = 0
       THEN Refuse(p, "download_file", "Invalid session")
       ELSE LET req == Request("download_file", FALSE, <<sess.year, sess.semester>>,
                               <<>>, 0, filename, 0)
            IN /\ Arrive(p, req)
               /\ cputs' = [cputs EXCEPT ![p] = 0]
               /\ cups' = [cups EXCEPT ![p] = <<>>]
               /\ Proceed(p, IF outcome # OK THEN Leave("Error downloading file")
                              ELSE IF get_s3_key(req.scope, filename) \notin blobs
                              THEN Leave("File not found")
                              ELSE GoOn("load", NoDoc, <<>>))
               /\ UNCHANGED <<docs, blobs>>
    /\ UNCHANGED regvars

\* load_data called after an earlier object-store call of the handler.
load_data_download(p, outcome) ==
    /\ cpc[p] = "load"
    /\ load_data(p, creq[p], outcome)
    /\ UNCHANGED <<creq, nextId, nreq, cpre, cputs, cdels, cups, cfails, regvars>>

\* load_data, second half: save_data(default_data), a failure of which is
\* only printed; the handler goes on with default_data either way.
load_data_default(p, outcome) ==
    /\ cpc[p] = "default"
    /\ cputs' = [cputs EXCEPT ![p] = @ + 1]
    /\ docs' = IF outcome = OK
               THEN [docs EXCEPT ![creq[p].scope] =
                        s3_upload_json(@, save_data(default_data))]
               ELSE docs
    /\ Proceed(p, Loaded(creq[p], save_data(default_data)))
    /\ UNCHANGED <<blobs, creq, nextId, nreq, cpre, cdels, cups, cfails, regvars>>

\* Mutant of s3_delete_file: a failed delete raises, and the handler reports
\* the error without saving.
s3_delete_file_raise(p, outcome) ==
    /\ cpc[p] = "delete"
    /\ cdels' = [cdels EXCEPT ![p] = Append(@, Head(ctodo[p]))]
    /\ blobs' = IF outcome = OK THEN blobs \ {Head(ctodo[p])} ELSE blobs
    /\ cfails' = IF outcome = OK THEN cfails
                 ELSE [cfails EXCEPT ![p] = @ \cup {Head(ctodo[p])}]
    /\ Proceed(p, IF outcome # OK THEN Leave("error")
                  ELSE GoOn(IF Tail(ctodo[p]) # <<>> THEN "delete"
                            ELSE IF creq[p].op = "edit_unit" THEN "upload" ELSE "save",
                            cdata[p], Tail(ctodo[p])))
    /\ UNCHANGED <<docs, creq, nextId, nreq, cpre, cputs, cups, regvars>>

\* s3_delete_file on the next key: a ClientError is printed and swallowed.
s3_delete_file(p, outcome) ==
    /\ cpc[p] = "delete"
    /\ cdels' = [cdels EXCEPT ![p] = Append(@, Head(ctodo[p]))]
    /\ blobs' = IF outcome = OK THEN blobs \ {Head(ctodo[p])} ELSE blobs
    /\ cfails' = IF outcome = OK THEN cfails
                 ELSE [cfails EXCEPT ![p] = @ \cup {Head(ctodo[p])}]
    /\ Proceed(p, GoOn(IF Tail(ctodo[p]) # <<>> THEN "delete"
                       ELSE IF creq[p].op = "edit_unit" THEN "upload" ELSE "save",
                       cdata[p], Tail(ctodo[p])))
    /\ UNCHANGED <<docs, creq, nextId, nreq, cpre, cputs, cups, regvars>>

\* s3_upload_fileobj in edit_unit: on success the unit gets the new filename;
\* a failure raises and the handler reports the error without saving.
s3_upload_fileobj(p, outcome) ==
    /\ cpc[p] = "upload"
    /\ cups' = [cups EXCEPT ![p] = Append(@, get_s3_key(creq[p].scope, creq[p].filename))]
    /\ IF outcome = OK
       THEN /\ blobs' = blobs \cup {get_s3_key(creq[p].scope, creq[p].filename)}
            /\ Proceed(p, GoOn("save",
                               SetFilename(cdata[p], creq[p].sid, creq[p].uid,
                                           creq[p].filename), <<>>))
       ELSE /\ Proceed(p, Leave("error"))
            /\ UNCHANGED blobs
    /\ UNCHANGED <<docs, creq, nextId, nreq, cpre, cputs, cdels, cfails, regvars>>

\* save_data at the end of a handler: the whole document is written; a
\* failed upload raises and the handler reports the error.
save_data_upload(p, outcome) ==
    /\ cpc[p] = "save"
    /\ cputs' = [cputs EXCEPT ![p] = @ + 1]
    /\ docs' = IF outcome = OK
               THEN [docs EXCEPT ![creq[p].scope] = s3_upload_json(@, save_data(cdata[p]))]
               ELSE docs
    /\ Proceed(p, Leave(IF outcome = OK THEN "success" ELSE "error"))
    /\ UNCHANGED <<blobs, creq, nextId, nreq, cpre, cdels, cups, cfails, regvars>>

(***************************************************************************)
(* Contact submissions                                                     *)
(***************************************************************************)
\* The message field of a submission: missing, "m", "M".
Messages == {<<>>, <<109>>, <<77>>}

NoContacts == [exists |-> FALSE, submissions |-> <<>>]

\* POST /api/contact up to the download of the submissions document: a
\* missing field is refused; a document that is absent and a download that
\* fails both give a new empty list, to which the submission is appended.
contact_submit(p, message, outcome) ==
    /\ kpc[p] = "idle"
    /\ nmsg < MaxMsgs
    /\ nmsg' = nmsg + 1
    /\ IF message = <<>>
       THEN /\ kresp' = [kresp EXCEPT ![p] = "Missing required field"]
            /\ UNCHANGED <<kpc, kdata>>
       ELSE /\ kdata' = [kdata EXCEPT ![p] =
                          Append(IF outcome = OK /\ contacts.exists
                                 THEN contacts.submissions ELSE <<>>,
                                 [id |-> nmsg + 1, message |-> message])]
            /\ kpc' = [kpc EXCEPT ![p] = "upload"]
            /\ kresp' = [kresp EXCEPT ![p] = "none"]
    /\ UNCHANGED contacts

\* s3_upload_json of the submissions document; a failure is printed and the
\* request still answers success.
contact_upload(p, outcome) ==
    /\ kpc[p] = "upload"
    /\ contacts' = IF outcome = OK
                   THEN [exists |-> TRUE, submissions |-> kdata[p]]
                   ELSE contacts
    /\ kresp' = [kresp EXCEPT ![p] = IF outcome = OK THEN "sent" ELSE "received"]
    /\ kpc' = [kpc EXCEPT ![p] = "idle"]
    /\ kdata' = [kdata EXCEPT ![p] = <<>>]
    /\ UNCHANGED nmsg

InitContacts ==
    /\ contacts = NoContacts
    /\ kpc = [p \in Procs |-> "idle"]
    /\ kdata = [p \in Procs |-> <<>>]
    /\ kresp = [p \in Procs |-> "none"]
    /\ nmsg = 0

(***************************************************************************)
(* Sessions                                                                *)
(***************************************************************************)
\* The session is a signed cookie (app.secret_key, no server-side store):
\* a request works on the cookie it came with, and a handler that writes to
\* the session sends the whole changed session back as the new cookie.
NoSession == [admin_logged_in |-> FALSE, admin_year |-> 0, year |-> 0, semester |-> 0]

InitSession(sess) ==
    /\ jar = sess
    /\ ccookie = [p \in Procs |-> NoSession]
    /\ rcookie = [p \in Procs |-> NoSession]
    /\ logins = IF sess.admin_logged_in THEN {sess.admin_year} ELSE {}
    /\ sop = IF sess.admin_logged_in THEN "admin_login"
             ELSE IF sess.year # 0 THEN "subjects" ELSE "none"
    /\ nses = 0

\* What each handler that writes to the session makes of it.
\* admin_login; `granted` says whether username and password match the
\* credentials of "year_{year}".
admin_login_session(sess, granted) ==
    IF sess.year # 0 /\ granted
    THEN [sess EXCEPT !.admin_logged_in = TRUE, !.admin_year = sess.year]
    ELSE sess

\* admin_logout: session.pop("admin_logged_in"), session.pop("admin_year").
admin_logout_session(sess) == [sess EXCEPT !.admin_logged_in = FALSE, !.admin_year = 0]

\* logout: session.clear().
logout_session(sess) == NoSession

\* subjects: session["year"] = year, session["semester"] = semester.
subjects_session(sess, scope) == [sess EXCEPT !.year = scope[1], !.semester = scope[2]]

\* register_user: session["year"] = year.
register_user_session(sess, year) == [sess EXCEPT !.year = year]

\* POST /admin/login
admin_login(granted) ==
    /\ nses' = nses + 1
    /\ jar' = admin_login_session(jar, granted)
    /\ IF jar.year # 0 /\ granted
       THEN logins' = logins \cup {jar.year} /\ sop' = "admin_login"
       ELSE UNCHANGED <<logins, sop>>
    /\ UNCHANGED <<ccookie, rcookie, regvars, catvars, convars>>

\* GET /admin/logout
admin_logout ==
    /\ nses' = nses + 1
    /\ jar' = admin_logout_session(jar)
    /\ sop' = "admin_logout"
    /\ UNCHANGED <<ccookie, rcookie, logins, regvars, catvars, convars>>

\* GET /logout
logout ==
    /\ nses' = nses + 1
    /\ jar' = logout_session(jar)
    /\ sop' = "logout"
    /\ UNCHANGED <<ccookie, rcookie, logins, regvars, catvars, convars>>

\* The response of request p reaches the browser: a /subjects request has
\* written year and semester into the session it came with, whatever its
\* outcome, and that session is the new cookie.
SubjectsReturn(p) ==
    IF creq[p].op = "subjects" /\ cpc'[p] = "idle"
    THEN /\ jar' = subjects_session(ccookie[p], creq[p].scope)
         /\ sop' = "subjects"
    ELSE UNCHANGED <<jar, sop>>

\* The response of registration p reaches the browser: register_user writes
\* the session after add_or_update_user has returned, and not when it raised.
RegisterReturn(p, returned) ==
    IF returned /\ rpc'[p] = "idle"
    THEN /\ jar' = register_user_session(rcookie[p], rin[p].year)
         /\ sop' = "register_user"
    ELSE UNCHANGED <<jar, sop>>

(***************************************************************************)
(* Initial state and specifications                                        *)
(***************************************************************************)
Init ==
    /\ s3db = NoFile
    /\ localdb = NoFile
    /\ rpc = [p \in Procs |-> "idle"]
    /\ rin = [p \in Procs |-> NoInput]
    /\ rfound = [p \in Procs |-> 0]
    /\ rresp = [p \in Procs |-> "none"]
    /\ nreg = 0
    /\ regDone = EmptyBag
    /\ docs = [s \in Scopes |-> NoDoc]
    /\ blobs = {}
    /\ cpc = [p \in Procs |-> "idle"]
    /\ creq = [p \in Procs |-> NoReq]
    /\ cdata = [p \in Procs |-> NoDoc]
    /\ ctodo = [p \in Procs |-> <<>>]
    /\ cresp = [p \in Procs |-> "none"]
    /\ nextId = 0
    /\ nreq = 0
    /\ cpre = [p \in Procs |-> NoDoc]
    /\ cputs = [p \in Procs |-> 0]
    /\ cdels = [p \in Procs |-> <<>>]
    /\ cups = [p \in Procs |-> <<>>]
    /\ cfails = [p \in Procs |-> {}]
    /\ InitContacts
    /\ InitSession(NoSession)

RegNext(procs, outcomes, inputs) ==
    /\ \E p \in procs :
           \/ \E in \in inputs, o \in outcomes : RegConnect(p, in, o)
           \/ RegSelect(p)
           \/ RegWrite(p)
           \/ \E o \in outcomes : RegUpload(p, o)
    /\ UNCHANGED <<catvars, convars, sesvars>>

\* Subject ids a request can name: those of the stored subjects, and one no
\* subject has.
Ids ==
    UNION {{docs[s].subjects[i].id : i \in DOMAIN docs[s].subjects} : s \in Scopes}
    \cup {nextId + 1}

\* The arguments tried with a session: a request refused for its session
\* never reads them, so one of each is enough there.
ArgsFor(sess, set) ==
    IF sess.admin_logged_in THEN set ELSE {CHOOSE x \in set : TRUE}

\* The files a download asks for: a.pdf, b.pdf.
DownloadNames == {f \in FileNames : allowed_file(f)}

\* The scopes the sessions select.
ScopesOf(sessions) ==
    {<<sess.year, sess.semester>> : sess \in {x \in sessions : x.year # 0}}

\* Requests of the clients `procs` carrying the cookies `sessions`, at most
\* `max` requests in all, each object-store call ending as one of `outcomes`.
CatNext(procs, outcomes, sessions, max) ==
    /\ \E p \in procs, o \in outcomes :
           \/ \E sess \in sessions : \E name \in ArgsFor(sess, SubjectNames) :
                  nreq < max /\ add_subject(p, sess, name, o)
           \/ \E sess \in sessions :
                  \E sid \in ArgsFor(sess, Ids), name \in ArgsFor(sess, SubjectNames) :
                      nreq < max /\ edit_subject(p, sess, sid, name, o)
           \/ \E sess \in sessions : \E sid \in ArgsFor(sess, Ids) :
                  nreq < max /\ delete_subject(p, sess, sid, o)
           \/ \E sess \in sessions :
                  \E sid \in ArgsFor(sess, Ids), upload \in ArgsFor(sess, Uploads) :
                      nreq < max /\ add_unit(p, sess, sid, upload, o)
           \/ \E sess \in sessions, filename \in DownloadNames :
                  nreq < max /\ download_file(p, sess, filename, o)
           \/ \E scope \in ScopesOf(sessions) :
                  nreq < max /\ subjects(p, scope, o)
           \/ load_data_download(p, o)
           \/ load_data_default(p, o)
           \/ s3_delete_file(p, o)
           \/ save_data_upload(p, o)
    /\ UNCHANGED <<convars, sesvars>>

\* Registrations one at a time against a fault-free store.
SpecRegSeq == Init /\ [][RegNext({1}, {OK}, RegInputs)]_vars

\* Two registration requests interleaving, store calls may fail, ASCII text.
SpecReg == Init /\ [][RegNext(Procs, Outcomes, RegInputsAscii)]_vars

\* Two registration requests interleaving against a fault-free store.
SpecRegOK == Init /\ [][RegNext(Procs, {OK}, RegInputsAscii)]_vars

\* Contact submissions of the clients `procs`.
ConNext(procs, outcomes) ==
    /\ \E p \in procs, o \in outcomes :
           \/ \E message \in Messages : contact_submit(p, message, o)
           \/ contact_upload(p, o)
    /\ UNCHANGED <<regvars, catvars, sesvars>>

\* Contact submissions one at a time; object-store calls may fail.
SpecContactSeq == Init /\ [][ConNext({1}, Outcomes)]_vars

\* Catalog requests one at a time against a fault-free store.
SpecCatSeqOK == Init /\ [][CatNext({1}, {OK}, Sessions, MaxReqs)]_vars

\* Catalog requests one at a time; object-store calls may fail.
SpecCatSeq == Init /\ [][CatNext({1}, Outcomes, Sessions, MaxReqs)]_vars

\* The state after a visit of scope <<1, 1>>, add_subject "D" and add_unit
\* with a.pdf: the starting point of the interleaved runs.
Busy ==
    [exists |-> TRUE,
     subjects |-> <<[id |-> 1, name |-> <<68>>,
                     units |-> <<[id |-> 2, filename |-> <<97, 46, 112, 100, 102>>]>>]>>,
     stats |-> [total_subjects |-> 1, total_files |-> 1, total_visits |-> 1,
                total_downloads |-> 0]]

InitBusy ==
    /\ s3db = NoFile
    /\ localdb = NoFile
    /\ rpc = [p \in Procs |-> "idle"]
    /\ rin = [p \in Procs |-> NoInput]
    /\ rfound = [p \in Procs |-> 0]
    /\ rresp = [p \in Procs |-> "none"]
    /\ nreg = 0
    /\ regDone = EmptyBag
    /\ docs = [s \in Scopes |-> IF s = <<1, 1>> THEN Busy ELSE NoDoc]
    /\ blobs = {get_s3_key(<<1, 1>>, <<97, 46, 112, 100, 102>>)}
    /\ cpc = [p \in Procs |-> "idle"]
    /\ creq = [p \in Procs |-> NoReq]
    /\ cdata = [p \in Procs |-> NoDoc]
    /\ ctodo = [p \in Procs |-> <<>>]
    /\ cresp = [p \in Procs |-> "none"]
    /\ nextId = 2
    /\ nreq = 0
    /\ cpre = [p \in Procs |-> NoDoc]
    /\ cputs = [p \in Procs |-> 0]
    /\ cdels = [p \in Procs |-> <<>>]
    /\ cups = [p \in Procs |-> <<>>]
    /\ cfails = [p \in Procs |-> {}]
    /\ InitContacts
    /\ InitSession(NoSession)

\* Two clients' catalog requests interleaving against a fault-free store.
Next == CatNext(Procs, {OK}, Sessions, MaxBusyReqs)
Spec == InitBusy /\ [][Next]_vars

\* Unit ids a request can name: those of the stored units, and one no unit has.
UnitIds ==
    UNION {UNION {{docs[s].subjects[i].units[j].id :
                      j \in DOMAIN docs[s].subjects[i].units} :
                  i \in DOMAIN docs[s].subjects} : s \in Scopes}
    \cup {nextId + 1}

\* Requests on units and their files: add_unit, edit_unit, delete_unit and
\* delete_subject, at most `max` requests in all.
UnitNext(procs, outcomes, sessions, max) ==
    /\ \E p \in procs, o \in outcomes :
           \/ \E sess \in sessions :
                  \E sid \in ArgsFor(sess, Ids), upload \in ArgsFor(sess, Uploads) :
                      nreq < max /\ add_unit(p, sess, sid, upload, o)
           \/ \E sess \in sessions :
                  \E sid \in ArgsFor(sess, Ids), uid \in ArgsFor(sess, UnitIds),
                     upload \in ArgsFor(sess, Uploads) :
                      nreq < max /\ edit_unit(p, sess, sid, uid, upload, o)
           \/ \E sess \in sessions :
                  \E sid \in ArgsFor(sess, Ids), uid \in ArgsFor(sess, UnitIds) :
                      nreq < max /\ delete_unit(p, sess, sid, uid, o)
           \/ \E sess \in sessions : \E sid \in ArgsFor(sess, Ids) :
                  nreq < max /\ delete_subject(p, sess, sid, o)
           \/ load_data_download(p, o)
           \/ load_data_default(p, o)
           \/ s3_delete_file(p, o)
           \/ s3_upload_fileobj(p, o)
           \/ save_data_upload(p, o)
    /\ UNCHANGED <<convars, sesvars>>

\* Unit requests one at a time against a fault-free store.
SpecUnitSeqOK == InitBusy /\ [][UnitNext({1}, {OK}, Sessions, MaxUnitReqs)]_vars

\* Unit requests one at a time; object-store calls may fail.
SpecUnitSeq == InitBusy /\ [][UnitNext({1}, Outcomes, Sessions, MaxUnitReqs)]_vars

(***************************************************************************)
(* Claims about the user registry                                          *)
(***************************************************************************)
\* Rows of a registry file whose key equals k once letter case is folded away.
RowsOfKey(file, k) == {r \in file.rows : CanonKey(r) = k}

\* C1: with registrations run one at a time against a fault-free store, once
\* a key has been registered n times (letter case of department, section,
\* name and email aside) the stored registry holds exactly one row for it,
\* with count = n.
C1_OneRowCountN ==
    rpc[1] = "idle" =>
        \A k \in BagToSet(regDone) :
            /\ Cardinality(RowsOfKey(s3db, k)) = 1
            /\ \A r \in RowsOfKey(s3db, k) : r.count = CopiesIn(k, regDone)

\* C2: in every reachable state, also when two registration requests
\* interleave their steps, the stored registry has at most one row per
\* uniqueness key compared case-insensitively.
C2_OneRowPerKey ==
    \A r1, r2 \in s3db.rows : CanonKey(r1) = CanonKey(r2) => r1 = r2

\* C14: nothing keeps a registration's download from replacing the shared
\* local registry file while another request has changes in it that are not
\* uploaded yet: whenever a request connects and the store has a registry,
\* the local file becomes the stored copy.
C14_DownloadReplacesLocal ==
    [][\A p \in Procs :
          (rpc[p] = "idle" /\ rpc'[p] = "select" /\ s3db.exists) =>
              localdb' = s3db]_vars

\* C14, the case: three registrations of one key have returned, the last
\* two interleaved and both answered 'User updated' (the first one created
\* the row), and the stored row has count 2.
C14_LostRegistration ==
    /\ \A p \in Procs : rpc[p] = "idle" /\ rresp[p] = "User updated"
    /\ nreg = 3
    /\ \E k \in BagToSet(regDone) :
          /\ CopiesIn(k, regDone) = 3
          /\ \E r \in RowsOfKey(s3db, k) : RowsOfKey(s3db, k) = {r} /\ r.count = 2

(***************************************************************************)
(* Claims about the catalog                                                *)
(***************************************************************************)
\* Request p has returned from the handler op.
Done(p, op) == cpc[p] = "idle" /\ creq[p].op = op

HasSubject(data, sid) == \E i \in DOMAIN data.subjects : data.subjects[i].id = sid

HasName(data, name) ==
    \E i \in DOMAIN data.subjects : PyLower(data.subjects[i].name) = PyLower(name)

\* The units of a document, each counted once.
CountUnits(data) ==
    Cardinality(UNION {{<<i, j>> : j \in DOMAIN data.subjects[i].units} :
                          i \in DOMAIN data.subjects})

\* C3: a handler's save stores that handler's in-memory document whole and
\* reports success whatever has been stored since the handler loaded: nothing
\* checks a version or holds a lock, so the last writer wins.
C3_LastWriterWins ==
    [][\A p \in Procs :
          (cpc[p] = "save" /\ cpc'[p] = "idle") =>
              /\ cresp'[p] = "success"
              /\ docs'[creq[p].scope] = save_data(cdata[p])]_vars

\* C3, the case: two add_subject requests on one scope have both reported
\* success and the stored document holds the subject of only one of them.
C3_LostUpdate ==
    \E p, q \in Procs :
        /\ p # q
        /\ Done(p, "add_subject") /\ Done(q, "add_subject")
        /\ cresp[p] = "success" /\ cresp[q] = "success"
        /\ creq[p].scope = creq[q].scope
        /\ HasSubject(docs[creq[p].scope], creq[p].newid)
        /\ ~HasSubject(docs[creq[q].scope], creq[q].newid)

\* C4: with add_subject, edit_subject and delete_subject run one at a time,
\* no stored document has two subjects whose names are equal ignoring case.
C4_UniqueSubjectNames ==
    \A s \in Scopes : \A i, j \in DOMAIN docs[s].subjects :
        i # j => PyLower(docs[s].subjects[i].name) # PyLower(docs[s].subjects[j].name)

\* C5: add_subject with a name that equals, ignoring case, the name of a
\* subject of the stored document returns 'Subject already exists', writes no
\* document and leaves the stored document as it was.
C5_DuplicateRejected ==
    \A p \in Procs :
        (Done(p, "add_subject") /\ creq[p].admin /\ HasName(cpre[p], creq[p].name)) =>
            /\ cresp[p] = "Subject already exists"
            /\ cputs[p] = 0
            /\ docs[creq[p].scope] = cpre[p]

\* C6: delete_subject on a subject of the scope's catalog issues exactly one
\* delete per unit of that subject with a filename, at the key of (year,
\* semester, filename), and no other delete; the document it saves no longer
\* has the subject.
C6_CascadeDeletes ==
    \A p \in Procs :
        (Done(p, "delete_subject") /\ creq[p].admin /\ HasSubject(cpre[p], creq[p].sid)) =>
            /\ cdels[p] = UnitKeys(creq[p].scope,
                                   cpre[p].subjects[FindSubject(cpre[p], creq[p].sid)].units)
            /\ cresp[p] = "success" => ~HasSubject(docs[creq[p].scope], creq[p].sid)

\* C7: save_data(scope, load_data(scope)), as the subjects page and
\* download_file run it with only a counter under stats changed in between,
\* leaves the subjects list of the stored document as it was.
C7_RoundTripKeepsSubjects ==
    \A p \in Procs :
        ((Done(p, "subjects") \/ Done(p, "download_file")) /\ cpre[p].exists) =>
            docs[creq[p].scope].subjects = cpre[p].subjects

\* C8: every stored document has stats.total_subjects = number of subjects
\* and stats.total_files = number of units, with or without a filename.
C8_StatsDerived ==
    \A s \in Scopes :
        docs[s].exists =>
            /\ docs[s].stats.total_subjects = Len(docs[s].subjects)
            /\ docs[s].stats.total_files = CountUnits(docs[s])

\* C8, the case: a stored document with a unit without a file and a unit with
\* one, both counted.
C8_CountsNullFilename ==
    \E s \in Scopes :
        /\ docs[s].exists
        /\ docs[s].stats.total_files >= 2
        /\ \E i \in DOMAIN docs[s].subjects :
              \E j, k \in DOMAIN docs[s].subjects[i].units :
                  /\ docs[s].subjects[i].units[j].filename = None
                  /\ docs[s].subjects[i].units[k].filename # None

\* C9: load_data writes the default document only when the scope has none;
\* when a document exists and reading it fails, the failure reaches the
\* caller and the stored document is not overwritten.
C9_DefaultOnlyWhenAbsent ==
    [][\A p \in Procs :
          (cpc[p] = "default" /\ docs[creq[p].scope].exists) =>
              /\ docs'[creq[p].scope] = docs[creq[p].scope]
              /\ cresp'[p] = "error"]_vars

\* C10: total_visits and total_downloads of a stored document never decrease
\* from one stored state to the next.
C10_CountersMonotone ==
    [][\A s \in Scopes :
          docs[s].exists =>
              /\ docs'[s].stats.total_visits >= docs[s].stats.total_visits
              /\ docs'[s].stats.total_downloads >= docs[s].stats.total_downloads]_vars

\* The document has a unit with the id under the subject with the id.
HasUnit(data, sid, uid) ==
    /\ HasSubject(data, sid)
    /\ FindUnit(data.subjects[FindSubject(data, sid)], uid) # 0

\* The unit with the id under the subject with the id.
UnitOf(data, sid, uid) ==
    LET subject == data.subjects[FindSubject(data, sid)]
    IN subject.units[FindUnit(subject, uid)]

\* Some unit of the document has the filename.
Referenced(data, filename) ==
    \E i \in DOMAIN data.subjects : \E j \in DOMAIN data.subjects[i].units :
        data.subjects[i].units[j].filename = filename

\* C12: a request that named a subject id or unit id the scope's catalog did
\* not have, answered 'Subject not found' or 'Unit not found', has left the
\* stored document as it was and has uploaded and deleted no blob, also when
\* it was an add_unit carrying an allowed file.
C12_NotFoundNoMutation ==
    \A p \in Procs :
        (/\ cpc[p] = "idle"
         /\ cresp[p] \in {"Subject not found", "Unit not found"}
         /\ cpre[p].exists
         /\ IF creq[p].op \in {"edit_unit", "delete_unit"}
            THEN ~HasUnit(cpre[p], creq[p].sid, creq[p].uid)
            ELSE ~HasSubject(cpre[p], creq[p].sid)) =>
            /\ docs[creq[p].scope] = cpre[p]
            /\ cups[p] = <<>>
            /\ cdels[p] = <<>>

\* C15: edit_unit on an existing unit with a file of allowed extension has
\* issued the delete of the old file's key (if the unit had a file) by the
\* time it uploads; it ends in success or in a reported store error, and on
\* success it has uploaded the new file once and the stored unit carries the
\* new filename, whether or not the delete failed.
C15_EditUnitReplacesFile ==
    \A p \in Procs :
        (/\ creq[p].op = "edit_unit" /\ creq[p].filename # None
         /\ HasUnit(cpre[p], creq[p].sid, creq[p].uid)) =>
            LET old == UnitOf(cpre[p], creq[p].sid, creq[p].uid).filename
                olds == IF old # None THEN <<get_s3_key(creq[p].scope, old)>> ELSE <<>>
                new == get_s3_key(creq[p].scope, creq[p].filename)
            IN /\ cpc[p] = "upload" => cdels[p] = olds
               /\ cpc[p] = "idle" =>
                     /\ cresp[p] \in {"success", "error"}
                     /\ cresp[p] = "success" =>
                           /\ cdels[p] = olds
                           /\ cups[p] = <<new>>
                           /\ HasUnit(docs[creq[p].scope], creq[p].sid, creq[p].uid)
                           /\ UnitOf(docs[creq[p].scope], creq[p].sid,
                                     creq[p].uid).filename = creq[p].filename

\* C16: a download_file that has returned: without year and semester in the
\* session it answered 'Invalid session' and wrote nothing; with the blob
\* absent it did not answer success and left the stored document as it was;
\* with the blob present and the file sent, total_downloads of the scope is
\* one more than before and the subjects list is as before.
C16_DownloadCounts ==
    \A p \in Procs :
        Done(p, "download_file") =>
            IF creq[p].scope \notin Scopes
            THEN cresp[p] = "Invalid session" /\ cputs[p] = 0
            ELSE /\ cresp[p] # "Invalid session"
                 /\ get_s3_key(creq[p].scope, creq[p].filename) \notin blobs =>
                       /\ cresp[p] \in {"File not found", "Error downloading file"}
                       /\ docs[creq[p].scope] = cpre[p]
                 /\ cresp[p] = "File not found" => docs[creq[p].scope] = cpre[p]
                 /\ cresp[p] = "success" =>
                       /\ get_s3_key(creq[p].scope, creq[p].filename) \in blobs
                       /\ docs[creq[p].scope].stats.total_downloads
                              = cpre[p].stats.total_downloads + 1
                       /\ docs[creq[p].scope].subjects = cpre[p].subjects

\* What delete_unit or delete_subject was asked to remove is gone from the
\* stored document of its scope.
TargetGone(p) ==
    IF creq[p].op = "delete_unit"
    THEN ~HasUnit(docs[creq[p].scope], creq[p].sid, creq[p].uid)
    ELSE ~HasSubject(docs[creq[p].scope], creq[p].sid)

\* C17: a delete_unit or delete_subject during which a delete of a blob
\* failed has still gone on to save: it reports success with the unit or
\* subject gone from the stored document, unless the save itself failed.
C17_FailedDeleteStillRemoves ==
    \A p \in Procs :
        (/\ cpc[p] = "idle" /\ creq[p].op \in {"delete_unit", "delete_subject"}
         /\ cfails[p] # {}) =>
            /\ cputs[p] = 1
            /\ cresp[p] \in {"success", "error"}
            /\ cresp[p] = "success" => TargetGone(p)

\* C17, the case: the request reported success, the blob whose delete failed
\* is still in the store and no unit of the stored document names it.
C17_OrphanBlob ==
    \E p \in Procs :
        /\ cpc[p] = "idle" /\ creq[p].op \in {"delete_unit", "delete_subject"}
        /\ cresp[p] = "success" /\ TargetGone(p)
        /\ \E k \in cfails[p] :
              /\ k \in blobs
              /\ ~Referenced(docs[creq[p].scope], k[3])

\* C18: between requests, every unit of a stored document that has a
\* filename has a blob at the key of (year, semester, filename).
C18_FilesPresent ==
    (\A p \in Procs : cpc[p] = "idle") =>
        \A s \in Scopes : \A i \in DOMAIN docs[s].subjects :
            \A j \in DOMAIN docs[s].subjects[i].units :
                docs[s].subjects[i].units[j].filename # None =>
                    get_s3_key(s, docs[s].subjects[i].units[j].filename) \in blobs

\* The sessions a browser holds at the start: none, a visitor who selected
\* scope <<1, 1>>, an admin who selected <<1, 1>> and logged in.
StartSessions ==
    {NoSession,
     [admin_logged_in |-> FALSE, admin_year |-> 0, year |-> 1, semester |-> 1],
     [admin_logged_in |-> TRUE, admin_year |-> 1, year |-> 1, semester |-> 1]}

InitSess ==
    /\ s3db = NoFile
    /\ localdb = NoFile
    /\ rpc = [p \in Procs |-> "idle"]
    /\ rin = [p \in Procs |-> NoInput]
    /\ rfound = [p \in Procs |-> 0]
    /\ rresp = [p \in Procs |-> "none"]
    /\ nreg = 0
    /\ regDone = EmptyBag
    /\ docs = [s \in Scopes |-> IF s = <<1, 1>> THEN Busy ELSE NoDoc]
    /\ blobs = {get_s3_key(<<1, 1>>, <<97, 46, 112, 100, 102>>)}
    /\ cpc = [p \in Procs |-> "idle"]
    /\ creq = [p \in Procs |-> NoReq]
    /\ cdata = [p \in Procs |-> NoDoc]
    /\ ctodo = [p \in Procs |-> <<>>]
    /\ cresp = [p \in Procs |-> "none"]
    /\ nextId = 2
    /\ nreq = 0
    /\ cpre = [p \in Procs |-> NoDoc]
    /\ cputs = [p \in Procs |-> 0]
    /\ cdels = [p \in Procs |-> <<>>]
    /\ cups = [p \in Procs |-> <<>>]
    /\ cfails = [p \in Procs |-> {}]
    /\ InitContacts
    /\ \E sess \in StartSessions : InitSession(sess)

\* What the requests of the session runs send: scopes, a registration for
\* year 2, a subject name, a file.
SessScopes == {<<1, 1>>, <<2, 1>>}
SessRegInputs ==
    {[department |-> <<67>>, year |-> y, section |-> <<65>>, name |-> <<78>>,
      email |-> <<69>>] : y \in {2}}
SessNames == {<<111>>}
SessUploads == {<<98, 46, 112, 100, 102>>}

\* One browser's requests, up to `max` in all, with the requests `procs` in
\* flight at a time: logins and logouts, page visits, registrations and
\* admin requests, each working on the cookie the browser holds when it is
\* sent.
SessNext(procs, outcomes, max) ==
    \E p \in procs, o \in outcomes :
        \/ \E granted \in BOOLEAN :
               nreq + nreg + nses < max /\ admin_login(granted)
        \/ nreq + nreg + nses < max /\ admin_logout
        \/ nreq + nreg + nses < max /\ logout
        \/ \E scope \in SessScopes :
               /\ nreq + nreg + nses < max
               /\ subjects(p, scope, o)
               /\ ccookie' = [ccookie EXCEPT ![p] = jar]
               /\ UNCHANGED <<jar, rcookie, logins, sop, nses, convars>>
        \/ \E in \in SessRegInputs :
               /\ nreq + nreg + nses < max
               /\ RegConnect(p, in, o)
               /\ rcookie' = [rcookie EXCEPT ![p] = jar]
               /\ UNCHANGED <<jar, ccookie, logins, sop, nses, catvars, convars>>
        \/ /\ RegSelect(p)
           /\ UNCHANGED <<sesvars, catvars, convars>>
        \/ /\ RegWrite(p)
           /\ RegisterReturn(p, TRUE)
           /\ UNCHANGED <<ccookie, rcookie, logins, nses, catvars, convars>>
        \/ /\ RegUpload(p, o)
           /\ RegisterReturn(p, o = OK)
           /\ UNCHANGED <<ccookie, rcookie, logins, nses, catvars, convars>>
        \/ \E name \in SessNames :
               /\ nreq + nreg + nses < max
               /\ add_subject(p, jar, name, o)
               /\ UNCHANGED <<sesvars, convars>>
        \/ \E sid \in ArgsFor(jar, Ids), upload \in SessUploads :
               /\ nreq + nreg + nses < max
               /\ add_unit(p, jar, sid, upload, o)
               /\ UNCHANGED <<sesvars, convars>>
        \/ \E sid \in ArgsFor(jar, Ids) :
               /\ nreq + nreg + nses < max
               /\ delete_subject(p, jar, sid, o)
               /\ UNCHANGED <<sesvars, convars>>
        \/ load_data_download(p, o) /\ UNCHANGED <<sesvars, convars>>
        \/ load_data_default(p, o) /\ UNCHANGED <<sesvars, convars>>
        \/ s3_delete_file(p, o) /\ UNCHANGED <<sesvars, convars>>
        \/ /\ save_data_upload(p, o)
           /\ SubjectsReturn(p)
           /\ UNCHANGED <<ccookie, rcookie, logins, nses, convars>>

\* One browser with two requests in flight, fault-free store.
SpecSess == InitSess /\ [][SessNext(Procs, {OK}, MaxSessReqs)]_vars

(***************************************************************************)
(* Claims about the contact submissions                                    *)
(***************************************************************************)
\* The submissions of `old` are all in `new`, in the same relative order.
KeepsAll(old, new) ==
    LET wasThere(x) == \E i \in DOMAIN old : old[i] = x
    IN SelectSeq(new, wasThere) = old

\* C13: the stored submissions list only grows at its end: every stored
\* submission is still stored, in the same relative order, after any later
\* contact_submit, whatever the outcome of its read of the document.
C13_AppendOnly ==
    [][KeepsAll(contacts.submissions, contacts'.submissions)]_vars

(***************************************************************************)
(* Claims about sessions                                                   *)
(***************************************************************************)
AdminOps ==
    {"add_subject", "edit_subject", "add_unit", "edit_unit", "delete_unit",
     "delete_subject"}

\* Request p arrives in this step.
Arrives(p) ==
    /\ nreq' = nreq + 1
    /\ cpc[p] = "idle"
    /\ cpc'[p] # "idle" \/ creq'[p] # creq[p] \/ cresp'[p] # cresp[p]

\* C11: a mutating admin request that arrives while the session has no
\* admin_logged_in answers 'Not authorized' at once and leaves documents and
\* blobs alone; the flag of the session goes from unset to set only with a
\* successful admin_login, and is unset once admin_logout or logout has
\* answered.
C11_AdminFlagGatesMutations ==
    [][/\ \A p \in Procs :
             (Arrives(p) /\ creq'[p].op \in AdminOps /\ ~jar.admin_logged_in) =>
                 /\ cresp'[p] = "Not authorized"
                 /\ cpc'[p] = "idle"
                 /\ cputs'[p] = 0 /\ cups'[p] = <<>> /\ cdels'[p] = <<>>
                 /\ docs' = docs /\ blobs' = blobs
       /\ (~jar.admin_logged_in /\ jar'.admin_logged_in) => sop' = "admin_login"
       /\ (sop' # sop /\ sop' \in {"admin_logout", "logout"}) => ~jar'.admin_logged_in]_vars

\* The blobs of a scope.
BlobsOf(set, s) == {k \in set : <<k[1], k[2]>> = s}

\* C19: a session with admin_logged_in set has as admin_year a year
\* admin_login has succeeded for; an admin request works on the scope of the
\* admin_year of the session it arrives with, whatever year the session has
\* selected, and a document or blob changes only in the scope of a request.
C19_AdminYearScope ==
    [][/\ jar'.admin_logged_in => jar'.admin_year \in logins'
       /\ \A p \in Procs :
             (Arrives(p) /\ creq'[p].admin) =>
                 /\ creq'[p].scope[1] = jar.admin_year
                 /\ creq'[p].scope[1] \in logins
       /\ \A s \in Scopes :
             (docs'[s] # docs[s] \/ BlobsOf(blobs', s) # BlobsOf(blobs, s)) =>
                 \E p \in Procs : creq'[p].scope = s]_vars

\* C19, the case: an admin of year 1 has selected year 2 since, and an
\* add_subject of that session has been saved in a scope of year 1.
C19_WriteAfterYearChange ==
    /\ jar.admin_logged_in /\ jar.admin_year = 1 /\ jar.year = 2
    /\ \E p \in Procs :
          /\ Done(p, "add_subject") /\ cresp[p] = "success"
          /\ creq[p].scope[1] = 1
          /\ HasSubject(docs[creq[p].scope], creq[p].newid)

=============================================================================
